---- MODULE Spec2Model ----
(***************************************************************************)
(* Model of the control logic of the SageMaker geospatial notebook:        *)
(*   - start_earth_observation_job, the start-then-poll helper;            *)
(*   - lambda_handler (code/eoj_lambda.py), the dispatcher behind the      *)
(*     Lambda steps and the SQS-driven callback checks;                    *)
(*   - the status/export loop over the three EOJs;                         *)
(*   - GeospatialPipeline: six steps, the SQS queue and the event source   *)
(*     mapping that feeds lambda_handler.                                  *)
(* The geospatial service, SageMaker Pipelines and SQS are the environment:*)
(* the answers of the service (the Status of a job) are nondeterministic   *)
(* choices made at the moment of the call.  API calls are taken to answer; *)
(* a botocore ClientError is not modelled.                                 *)
(* Of the shadow-variant notebook it models invoke_endpoint, where a call  *)
(* may raise, and the cells that create, use, promote and delete the       *)
(* endpoint around wait_for_endpoint_in_service.                           *)
(***************************************************************************)
EXTENDS Naturals, Sequences, FiniteSets

VARIABLES
    \* ---- start_earth_observation_job (one call of the function)
    sPc,              \* position: "call", "while", "poll", "returned"
    eoj_name,         \* parameter eoj_name of the call
    eoj_arn,          \* local eoj_arn ("" before the start call answered)
    gs_get_eoj_resp,  \* Status field of the local gs_get_eoj_resp
    startCalls,       \* [Name, Arn] of each call of gsClient.start_earth_observation_job
    polled,           \* Status answered by each get_earth_observation_job, in order
    sRet,             \* the returned value ("" while not returned)
    \* ---- lambda_handler (one invocation)
    event,            \* the event: [keys, input, records]
    lPc,              \* "entry", "records", "tail", "returned", "raised"
    lIdx,             \* index of the next record of event["Records"]
    response,         \* local response: [bound, Arn, Status]
    gsCalls,          \* calls made on gsClient, in order
    signals,          \* callback signals delivered to SageMaker, in order
    observed,         \* Status answered for each record polled so far
    lResult,          \* the returned dict, or the exception raised
    \* ---- the status/export loop over EOJs
    loopPc,           \* "while", "for", "done", "raised"
    j,                \* index of the for loop over EOJs
    eoj_status,       \* the list eoj_status
    exportCalls,      \* number of export_earth_observation_job calls per EOJ
    exportedPoll,     \* EOJs for which a poll answered COMPLETED with SUCCEEDED
    loopErr,          \* message of the exception that ended the loop
    lastPoll,         \* the latest get_earth_observation_job answer of the loop
    \* ---- one execution of GeospatialPipeline
    pInput,           \* value of parameter_eoj_input_config
    stepState,        \* per step: "pending", "executing", "succeeded", "failed"
    pStarted,         \* the steps in the order they were started
    jobStatus,        \* Status the service answers per ARN ("none": no such job yet)
    queue,            \* per callback token: "absent", "visible", "inflight", "deleted"
    pSignals,         \* callback signals SageMaker received: [method, token]
    \* ---- invoke_endpoint of the shadow-variant notebook (one call)
    iPc,              \* "row", "call", "returned", "raised"
    file,             \* the lines of test-dataset-input-cols.csv
    should_raise_exp, \* parameter should_raise_exp
    iRow,             \* index of the current line of the file
    payload,          \* local payload
    iLoop,            \* the inner loop's i: calls made so far for the line
    invocations,      \* sm_runtime.invoke_endpoint calls: [row, Body, error]
    \* ---- the endpoint cells of the shadow-variant notebook, run top to bottom
    nPc,              \* the cell (or the line of the wait loop) to run next
    epConfigs,        \* endpoint configurations created so far, by name
    endpointStatus,   \* EndpointStatus of the endpoint ("none": no endpoint)
    served,           \* the configuration the endpoint serves ("none": nothing)
    pendingConfig,    \* name of the configuration being deployed
    wStatus,          \* local status of wait_for_endpoint_in_service
    described,        \* EndpointStatus answered by each describe of a wait
    cellsRun          \* cells run against the endpoint: [cell, status, served]

startVars == <<sPc, eoj_name, eoj_arn, gs_get_eoj_resp, startCalls, polled, sRet>>
lambdaVars == <<event, lPc, lIdx, response, gsCalls, signals, observed, lResult>>
loopVars == <<loopPc, j, eoj_status, exportCalls, exportedPoll, loopErr, lastPoll>>
pipeVars == <<pInput, stepState, pStarted, jobStatus, queue, pSignals>>
invokeVars == <<iPc, file, should_raise_exp, iRow, payload, iLoop, invocations>>
shadowVars == <<nPc, epConfigs, endpointStatus, served, pendingConfig, wStatus,
                described, cellsRun>>
vars == <<startVars, lambdaVars, loopVars, pipeVars, invokeVars, shadowVars>>
\* what a step of one program leaves alone
notStartVars == <<lambdaVars, loopVars, pipeVars, invokeVars, shadowVars>>
notLambdaVars == <<startVars, loopVars, pipeVars, invokeVars, shadowVars>>
notLoopVars == <<startVars, lambdaVars, pipeVars, invokeVars, shadowVars>>
notPipeVars == <<startVars, lambdaVars, loopVars, invokeVars, shadowVars>>
notInvokeVars == <<startVars, lambdaVars, loopVars, pipeVars, shadowVars>>
notShadowVars == <<startVars, lambdaVars, loopVars, pipeVars, invokeVars>>

\* ------------------------------------------------------------------ bounds
MaxPolls == 3
MaxRecords == 2
MaxExportCalls == 2
MaxRows == 2
MaxDescribes == 2

\* ------------------------------------------------------- the environment
\* Status values the geospatial service answers for an EOJ, plus the
\* "SUCCEEDED" that lambda_handler expects of an export.
JobStatuses ==
    {"INITIALIZING", "IN_PROGRESS", "STOPPING", "COMPLETED", "STOPPED", "FAILED"}
Statuses == JobStatuses \cup {"SUCCEEDED"}
Arns == {"arn:eoj/a", "arn:eoj/b"}
Tokens == {"tokA", "tokB", "tokC"}
\* the three EOJs the notebook starts with the helper
EojNames == {"tempstats", "stacking", "landcover"}

Last(s) == s[Len(s)]

\* ============================================================ start helper
\* gs_get_eoj_resp = {"Status": "IN_PROGRESS"}
InitialRespMut == "COMPLETED"
InitialResp == "IN_PROGRESS"

\* while gs_get_eoj_resp["Status"] == "IN_PROGRESS"
KeepPolling(status) == status = "IN_PROGRESS"

StartInit ==
    /\ sPc = "call"
    /\ eoj_name \in EojNames
    /\ eoj_arn = ""
    /\ gs_get_eoj_resp = ""
    /\ startCalls = <<>>
    /\ polled = <<>>
    /\ sRet = ""

\* response = gsClient.start_earth_observation_job(...); eoj_arn = response["Arn"]
StartCall ==
    /\ sPc = "call"
    /\ \E arn \in Arns :
        /\ startCalls' = Append(startCalls, [Name |-> eoj_name, Arn |-> arn])
        /\ eoj_arn' = arn
    /\ gs_get_eoj_resp' = InitialResp
    /\ sPc' = "while"
    /\ UNCHANGED <<eoj_name, polled, sRet>>
    /\ UNCHANGED notStartVars

\* the loop test: stay in the loop
StartLoopEnter ==
    /\ sPc = "while"
    /\ KeepPolling(gs_get_eoj_resp)
    /\ sPc' = "poll"
    /\ UNCHANGED <<eoj_name, eoj_arn, gs_get_eoj_resp, startCalls, polled, sRet>>
    /\ UNCHANGED notStartVars

\* time.sleep(60); gs_get_eoj_resp = gsClient.get_earth_observation_job(Arn=eoj_arn)
StartPoll ==
    /\ sPc = "poll"
    /\ Len(polled) < MaxPolls
    /\ \E st \in JobStatuses :
        /\ gs_get_eoj_resp' = st
        /\ polled' = Append(polled, st)
    /\ sPc' = "while"
    /\ UNCHANGED <<eoj_name, eoj_arn, startCalls, sRet>>
    /\ UNCHANGED notStartVars

\* the loop test fails: return eoj_arn
StartReturn ==
    /\ sPc = "while"
    /\ ~KeepPolling(gs_get_eoj_resp)
    /\ sRet' = eoj_arn
    /\ sPc' = "returned"
    /\ UNCHANGED <<eoj_name, eoj_arn, gs_get_eoj_resp, startCalls, polled>>
    /\ UNCHANGED notStartVars

start_earth_observation_job ==
    \/ StartCall
    \/ StartLoopEnter
    \/ StartPoll
    \/ StartReturn

\* ========================================================== lambda_handler
EventKeys == {"eoj_name", "eoj_output_config", "Records"}

\* Texts of event["eoj_input_config"], as the words the handler searches for:
\* a raster query (it holds a RasterDataCollectionArn), a query without an ARN,
\* the ARN of a previous EOJ, and the empty default of the pipeline parameter.
InputTexts ==
    { <<"RasterDataCollectionQuery", "arn">>,
      <<"RasterDataCollectionQuery">>,
      <<"arn">>,
      <<>> }

\* "word" in str(text)
Contains(word, text) == \E i \in 1..Len(text) : text[i] = word

\* Sequences of records with pairwise different callback tokens.
RecordSeqs ==
    { r \in UNION { [1..n -> [token : Tokens, eoj_arn : Arns]] : n \in 0..MaxRecords } :
        \A i, k \in 1..Len(r) : i # k => r[i].token # r[k].token }

Events == [keys : SUBSET EventKeys, input : InputTexts, records : RecordSeqs]

\* The if / elif / elif chain of lambda_handler.
BranchMut(ev) ==
    IF "eoj_output_config" \in ev.keys THEN "export"
    ELSE IF "eoj_name" \in ev.keys THEN "start"
    ELSE IF "Records" \in ev.keys THEN "records"
    ELSE "none"
Branch(ev) ==
    IF "eoj_name" \in ev.keys THEN "start"
    ELSE IF "eoj_output_config" \in ev.keys THEN "export"
    ELSE IF "Records" \in ev.keys THEN "records"
    ELSE "none"

\* ast.literal_eval(text): the dict the text denotes, here the set of the
\* words under its top-level key
LiteralEval(text) == {text[i] : i \in 2..Len(text)}

\* input_config of the start branch; "unbound" when neither test matches.
\* form is the top-level key of the dict, value what is stored under it.
InputConfigMutOrder(text) ==
    IF Contains("arn", text)
        THEN [form |-> "PreviousEarthObservationJobArn", value |-> text]
    ELSE IF Contains("RasterDataCollectionQuery", text)
        THEN [form |-> "RasterDataCollectionQuery", value |-> LiteralEval(text)]
    ELSE [form |-> "unbound", value |-> text]
InputConfigMutElse(text) ==
    IF Contains("RasterDataCollectionQuery", text)
        THEN [form |-> "RasterDataCollectionQuery", value |-> LiteralEval(text)]
    ELSE [form |-> "PreviousEarthObservationJobArn", value |-> text]
InputConfig(text) ==
    IF Contains("RasterDataCollectionQuery", text)
        THEN [form |-> "RasterDataCollectionQuery", value |-> LiteralEval(text)]
    ELSE IF Contains("arn", text)
        THEN [form |-> "PreviousEarthObservationJobArn", value |-> text]
    ELSE [form |-> "unbound", value |-> text]

\* Methods of the boto3 SageMaker client the handler can reach; any other
\* attribute of the client raises AttributeError.
SageMakerClientMethods ==
    {"send_pipeline_execution_step_success", "send_pipeline_execution_step_failure"}

\* The call on the SageMaker client that the handler writes for a polled
\* Status, as written in the source; method "none" is the else branch.
StepCallMutCompleted(st, token) ==
    IF st = "COMPLETED" THEN
        [method |-> "send_pipeline_execution_step_success", CallbackToken |-> token,
         Name |-> "export_eoj_status", Value |-> st]
    ELSE IF st = "SUCCEEDED" THEN
        [method |-> "send_pipeline_execution_step_sucess", CallbackToken |-> token,
         Name |-> "export_eoj_status", Value |-> st]
    ELSE IF st = "FAILED" THEN
        [method |-> "send_pipeline_execution_step_failure", CallbackToken |-> token,
         Name |-> "FailureReason", Value |-> "ErrorDetails"]
    ELSE
        [method |-> "none", CallbackToken |-> token, Name |-> "", Value |-> ""]
StepCallMutFailed(st, token) ==
    IF st = "COMPLETED" THEN
        [method |-> "send_pipeline_execution_step_success", CallbackToken |-> token,
         Name |-> "eoj_status", Value |-> st]
    ELSE IF st = "SUCCEEDED" THEN
        [method |-> "send_pipeline_execution_step_sucess", CallbackToken |-> token,
         Name |-> "export_eoj_status", Value |-> st]
    ELSE IF st = "FAILED" THEN
        [method |-> "send_pipeline_execution_step_success", CallbackToken |-> token,
         Name |-> "eoj_status", Value |-> st]
    ELSE
        [method |-> "none", CallbackToken |-> token, Name |-> "", Value |-> ""]
StepCallMutRunning(st, token) ==
    IF st = "COMPLETED" THEN
        [method |-> "send_pipeline_execution_step_success", CallbackToken |-> token,
         Name |-> "eoj_status", Value |-> st]
    ELSE IF st = "SUCCEEDED" THEN
        [method |-> "send_pipeline_execution_step_sucess", CallbackToken |-> token,
         Name |-> "export_eoj_status", Value |-> st]
    ELSE IF st \in {"FAILED", "STOPPED"} THEN
        [method |-> "send_pipeline_execution_step_failure", CallbackToken |-> token,
         Name |-> "FailureReason", Value |-> "ErrorDetails"]
    ELSE
        [method |-> "none", CallbackToken |-> token, Name |-> "", Value |-> ""]
StepCall(st, token) ==
    IF st = "COMPLETED" THEN
        [method |-> "send_pipeline_execution_step_success", CallbackToken |-> token,
         Name |-> "eoj_status", Value |-> st]
    ELSE IF st = "SUCCEEDED" THEN
        [method |-> "send_pipeline_execution_step_sucess", CallbackToken |-> token,
         Name |-> "export_eoj_status", Value |-> st]
    ELSE IF st = "FAILED" THEN
        [method |-> "send_pipeline_execution_step_failure", CallbackToken |-> token,
         Name |-> "FailureReason", Value |-> "ErrorDetails"]
    ELSE
        [method |-> "none", CallbackToken |-> token, Name |-> "", Value |-> ""]

Unbound == [bound |-> FALSE, Arn |-> "", Status |-> ""]
NoResult == [kind |-> "none", statusCode |-> 0, eoj_arn |-> "", exception |-> ""]
Returned(arn) == [kind |-> "returned", statusCode |-> 200, eoj_arn |-> arn, exception |-> ""]
Raised(exc) == [kind |-> "raised", statusCode |-> 0, eoj_arn |-> "", exception |-> exc]

LambdaInit ==
    /\ event \in Events
    /\ lPc = "entry"
    /\ lIdx = 1
    /\ response = Unbound
    /\ gsCalls = <<>>
    /\ signals = <<>>
    /\ observed = <<>>
    /\ lResult = NoResult

\* if "eoj_name" in event: ... gsClient.start_earth_observation_job(...)
LambdaStart ==
    /\ lPc = "entry"
    /\ Branch(event) = "start"
    /\ InputConfig(event.input).form # "unbound"
    /\ \E arn \in Arns :
        response' = [bound |-> TRUE, Arn |-> arn, Status |-> ""]
    /\ gsCalls' = Append(gsCalls,
            [op |-> "start_earth_observation_job", arg |-> InputConfig(event.input)])
    /\ lPc' = "tail"
    /\ UNCHANGED <<event, lIdx, signals, observed, lResult>>
    /\ UNCHANGED notLambdaVars

\* the start branch with input_config never assigned: InputConfig=input_config
\* raises UnboundLocalError, which except ClientError does not catch
LambdaStartUnbound ==
    /\ lPc = "entry"
    /\ Branch(event) = "start"
    /\ InputConfig(event.input).form = "unbound"
    /\ lResult' = Raised("UnboundLocalError")
    /\ lPc' = "raised"
    /\ UNCHANGED <<event, lIdx, response, gsCalls, signals, observed>>
    /\ UNCHANGED notLambdaVars

\* elif "eoj_output_config" in event: ... gsClient.export_earth_observation_job(...)
LambdaExport ==
    /\ lPc = "entry"
    /\ Branch(event) = "export"
    /\ \E arn \in Arns :
        response' = [bound |-> TRUE, Arn |-> arn, Status |-> ""]
    /\ gsCalls' = Append(gsCalls, [op |-> "export_earth_observation_job", arg |-> "eoj_arn"])
    /\ lPc' = "tail"
    /\ UNCHANGED <<event, lIdx, signals, observed, lResult>>
    /\ UNCHANGED notLambdaVars

\* elif "Records" in event: enter the loop over event["Records"]
LambdaRecords ==
    /\ lPc = "entry"
    /\ Branch(event) = "records"
    /\ lPc' = "records"
    /\ UNCHANGED <<event, lIdx, response, gsCalls, signals, observed, lResult>>
    /\ UNCHANGED notLambdaVars

\* no branch matches
LambdaNoBranch ==
    /\ lPc = "entry"
    /\ Branch(event) = "none"
    /\ lPc' = "tail"
    /\ UNCHANGED <<event, lIdx, response, gsCalls, signals, observed, lResult>>
    /\ UNCHANGED notLambdaVars

\* one iteration of the loop: get_earth_observation_job, then the four-way test
LambdaCheckRecord ==
    /\ lPc = "records"
    /\ lIdx <= Len(event.records)
    /\ \E st \in Statuses :
        LET record == event.records[lIdx]
            call == StepCall(st, record.token)
        IN  /\ response' = [bound |-> TRUE, Arn |-> record.eoj_arn, Status |-> st]
            /\ gsCalls' = Append(gsCalls,
                    [op |-> "get_earth_observation_job", arg |-> record.eoj_arn])
            /\ observed' = Append(observed, st)
            /\ \/ /\ call.method \in SageMakerClientMethods
                  /\ signals' = Append(signals, call)
                  /\ lIdx' = lIdx + 1
                  /\ UNCHANGED <<lPc, lResult>>
               \/ /\ call.method \notin SageMakerClientMethods
                  /\ call.method # "none"
                  /\ lResult' = Raised("AttributeError")
                  /\ lPc' = "raised"
                  /\ UNCHANGED <<signals, lIdx>>
               \/ /\ call.method = "none"
                  /\ lResult' = Raised("EOJ or export still running...")
                  /\ lPc' = "raised"
                  /\ UNCHANGED <<signals, lIdx>>
    /\ UNCHANGED event
    /\ UNCHANGED notLambdaVars

\* the loop over the records is exhausted
LambdaRecordsDone ==
    /\ lPc = "records"
    /\ lIdx > Len(event.records)
    /\ lPc' = "tail"
    /\ UNCHANGED <<event, lIdx, response, gsCalls, signals, observed, lResult>>
    /\ UNCHANGED notLambdaVars

\* try: response / except NameError: response = None; return statusCode 200
LambdaTail ==
    /\ lPc = "tail"
    /\ lResult' = Returned(IF response.bound THEN response.Arn ELSE "")
    /\ lPc' = "returned"
    /\ UNCHANGED <<event, lIdx, response, gsCalls, signals, observed>>
    /\ UNCHANGED notLambdaVars

lambda_handler ==
    \/ LambdaStart
    \/ LambdaStartUnbound
    \/ LambdaExport
    \/ LambdaRecords
    \/ LambdaNoBranch
    \/ LambdaCheckRecord
    \/ LambdaRecordsDone
    \/ LambdaTail

\* ================================================= the status/export loop
\* EOJs = [ts_eoj_arn, s_eoj_arn, lc_eoj_arn]
NumEojs == 3
EojIdx == 1..NumEojs
\* ExportStatus of a get_earth_observation_job answer; "absent" when the
\* answer has no such key
ExportStatuses == {"absent", "IN_PROGRESS", "SUCCEEDED", "FAILED"}

\* no answer yet
NoPoll == [job |-> 0, Status |-> "", ExportStatus |-> ""]

\* all(i == "Exported" for i in eoj_status)
AllExportedMut(st) == \E i \in EojIdx : st[i] = "Exported"
AllExported(st) == \A i \in EojIdx : st[i] = "Exported"

\* eoj_status = [""] * len(EOJs)
LoopInit ==
    /\ loopPc = "while"
    /\ j = 1
    /\ eoj_status = [i \in EojIdx |-> ""]
    /\ exportCalls = [i \in EojIdx |-> 0]
    /\ exportedPoll = {}
    /\ loopErr = ""
    /\ lastPoll = NoPoll

\* while not all(...): enter the for loop, or leave the loop
LoopWhile ==
    /\ loopPc = "while"
    /\ loopPc' = IF AllExported(eoj_status) THEN "done" ELSE "for"
    /\ j' = 1
    /\ UNCHANGED <<eoj_status, exportCalls, exportedPoll, loopErr, lastPoll>>
    /\ UNCHANGED notLoopVars

\* The branch of the for-loop body taken on an answer with Status st and
\* ExportStatus ex.
PollOutcomeMut(st, ex) ==
    IF st = "COMPLETED" THEN
        IF ex = "absent" THEN "export"
        ELSE IF ex = "IN_PROGRESS" THEN "Exporting"
        ELSE IF ex = "SUCCEEDED" THEN "Exported"
        ELSE "Exporting"
    ELSE "In progress"
PollOutcome(st, ex) ==
    IF st = "COMPLETED" THEN
        IF ex = "absent" THEN "export"
        ELSE IF ex = "IN_PROGRESS" THEN "Exporting"
        ELSE IF ex = "SUCCEEDED" THEN "Exported"
        ELSE "Error exporting"
    ELSE IF st = "IN_PROGRESS" THEN "In progress"
    ELSE "Error with the EOJ"

\* one iteration of the for loop: poll EOJs[j] and act on the answer
LoopPoll ==
    /\ loopPc = "for"
    /\ j <= NumEojs
    /\ \E st \in JobStatuses, ex \in ExportStatuses :
        /\ exportedPoll' = IF st = "COMPLETED" /\ ex = "SUCCEEDED"
                             THEN exportedPoll \cup {j} ELSE exportedPoll
        /\ lastPoll' = [job |-> j, Status |-> st, ExportStatus |-> ex]
        /\ \/ /\ PollOutcome(st, ex) = "export"
              /\ exportCalls[j] < MaxExportCalls
              /\ exportCalls' = [exportCalls EXCEPT ![j] = @ + 1]
              /\ j' = j + 1
              /\ UNCHANGED <<loopPc, eoj_status, loopErr>>
           \/ /\ PollOutcome(st, ex) \in {"Exporting", "Exported", "In progress"}
              /\ eoj_status' = [eoj_status EXCEPT ![j] = PollOutcome(st, ex)]
              /\ j' = j + 1
              /\ UNCHANGED <<loopPc, exportCalls, loopErr>>
           \/ /\ PollOutcome(st, ex) \in {"Error exporting", "Error with the EOJ"}
              /\ loopErr' = PollOutcome(st, ex)
              /\ loopPc' = "raised"
              /\ UNCHANGED <<j, eoj_status, exportCalls>>
    /\ UNCHANGED notLoopVars

\* after the for loop: break when all are exported, else time.sleep(30)
LoopAfterFor ==
    /\ loopPc = "for"
    /\ j > NumEojs
    /\ loopPc' = IF AllExported(eoj_status) THEN "done" ELSE "while"
    /\ UNCHANGED <<j, eoj_status, exportCalls, exportedPoll, loopErr, lastPoll>>
    /\ UNCHANGED notLoopVars

export_loop ==
    \/ LoopWhile
    \/ LoopPoll
    \/ LoopAfterFor

\* ===================================================== GeospatialPipeline
\* steps=[step_lambda_cr, step_callback_cr, step_lambda_s, step_callback_s,
\*        step_lambda_ex, step_callback_ex]
PipelineSteps ==
    <<"CloudRemovalStep", "CloudRemovalCallbackStep", "StackingStep",
      "StackingCallbackStep", "ExportStep", "ExportCallbackStep">>
StepNames == {PipelineSteps[i] : i \in 1..Len(PipelineSteps)}
LambdaSteps == {"CloudRemovalStep", "StackingStep", "ExportStep"}
CallbackSteps == StepNames \ LambdaSteps

\* ARNs of the execution: the cloud-removal EOJ, the stacking EOJ, and the
\* ARN answered by export_earth_observation_job
PipeArns == {"arn:cr", "arn:s", "arn:ex"}

\* The steps a step waits for: its depends_on list and the steps whose
\* properties its inputs refer to.
DependsOnMut(step) ==
    CASE step = "CloudRemovalStep" -> {}
      [] step = "CloudRemovalCallbackStep" -> {"CloudRemovalStep"}
      [] step = "StackingStep" -> {"CloudRemovalStep"}
      [] step = "StackingCallbackStep" -> {"StackingStep"}
      [] step = "ExportStep" -> {"StackingStep"}
      [] step = "ExportCallbackStep" -> {"ExportStep"}
DependsOn(step) ==
    CASE step = "CloudRemovalStep" -> {}
      [] step = "CloudRemovalCallbackStep" -> {"CloudRemovalStep"}
      [] step = "StackingStep" -> {"CloudRemovalCallbackStep", "CloudRemovalStep"}
      [] step = "StackingCallbackStep" -> {"StackingStep"}
      [] step = "ExportStep" -> {"StackingCallbackStep", "StackingStep"}
      [] step = "ExportCallbackStep" -> {"ExportStep"}

\* The event a Lambda step passes to lambda_handler (its inputs).
StepEvent(step, input) ==
    CASE step = "CloudRemovalStep" ->
            [keys |-> {"eoj_name"}, input |-> input, records |-> <<>>]
      [] step = "StackingStep" ->
            [keys |-> {"eoj_name"}, input |-> <<"arn">>, records |-> <<>>]
      [] step = "ExportStep" ->
            [keys |-> {"eoj_output_config"}, input |-> <<>>, records |-> <<>>]

\* The ARN a step is about: the job a Lambda step creates (its eoj_arn
\* output), the eoj_arn input of a callback step.
StepArn(step) ==
    CASE step \in {"CloudRemovalStep", "CloudRemovalCallbackStep"} -> "arn:cr"
      [] step \in {"StackingStep", "StackingCallbackStep"} -> "arn:s"
      [] step \in {"ExportStep", "ExportCallbackStep"} -> "arn:ex"

\* The callback token SageMaker generates for a callback step.
TokenOf(step) ==
    CASE step = "CloudRemovalCallbackStep" -> "token:cr"
      [] step = "StackingCallbackStep" -> "token:s"
      [] step = "ExportCallbackStep" -> "token:ex"
PipeTokens == {TokenOf(st) : st \in CallbackSteps}
StepOfToken(t) == CHOOSE st \in CallbackSteps : TokenOf(st) = t

\* The loop of lambda_handler over event["Records"], with the Status the
\* service answers per ARN: the signals sent, and whether it ended by raising.
RECURSIVE RunRecords(_, _, _)
RunRecords(recs, status, sigs) ==
    IF recs = <<>> THEN [signals |-> sigs, raised |-> FALSE]
    ELSE LET call == StepCall(status[Head(recs).eoj_arn], Head(recs).token)
         IN  IF call.method \in SageMakerClientMethods
                 THEN RunRecords(Tail(recs), status, sigs \cup {call})
                 ELSE [signals |-> sigs, raised |-> TRUE]

\* Batches the event source mapping can hand to the function: the visible
\* messages, in some order.
Batches ==
    LET visible == {t \in PipeTokens : queue[t] = "visible"}
    IN  { b \in UNION { [1..n -> visible] : n \in 1..Cardinality(visible) } :
            \A i, k \in 1..Len(b) : i # k => b[i] # b[k] }

Ready(step) ==
    /\ stepState[step] = "pending"
    /\ \A d \in DependsOn(step) : stepState[d] = "succeeded"
    /\ \A d \in StepNames : stepState[d] # "failed"

PipeInit ==
    /\ pInput \in InputTexts
    /\ stepState = [st \in StepNames |-> "pending"]
    /\ pStarted = <<>>
    /\ jobStatus = [a \in PipeArns |-> "none"]
    /\ queue = [t \in PipeTokens |-> "absent"]
    /\ pSignals = {}

\* A Lambda step runs lambda_handler with its inputs and waits for the result.
PipeLambdaStep ==
    /\ \E step \in LambdaSteps :
        /\ Ready(step)
        /\ pStarted' = Append(pStarted, step)
        /\ LET ev == StepEvent(step, pInput)
           IN  \/ /\ Branch(ev) = "start"
                  /\ InputConfig(ev.input).form # "unbound"
                  /\ jobStatus' = [jobStatus EXCEPT ![StepArn(step)] = "INITIALIZING"]
                  /\ stepState' = [stepState EXCEPT ![step] = "succeeded"]
               \/ /\ Branch(ev) = "start"
                  /\ InputConfig(ev.input).form = "unbound"
                  /\ stepState' = [stepState EXCEPT ![step] = "failed"]
                  /\ UNCHANGED jobStatus
               \/ /\ Branch(ev) = "export"
                  /\ \E st \in {"IN_PROGRESS", "COMPLETED"} :
                        jobStatus' = [jobStatus EXCEPT ![StepArn(step)] = st]
                  /\ stepState' = [stepState EXCEPT ![step] = "succeeded"]
    /\ UNCHANGED <<pInput, queue, pSignals>>
    /\ UNCHANGED notPipeVars

\* A callback step sends its token and inputs to the SQS queue and waits.
PipeCallbackStep ==
    /\ \E step \in CallbackSteps :
        /\ Ready(step)
        /\ pStarted' = Append(pStarted, step)
        /\ stepState' = [stepState EXCEPT ![step] = "executing"]
        /\ queue' = [queue EXCEPT ![TokenOf(step)] = "visible"]
    /\ UNCHANGED <<pInput, jobStatus, pSignals>>
    /\ UNCHANGED notPipeVars

\* The service works on a job.
JobProgress ==
    /\ \E a \in PipeArns, st \in Statuses :
        /\ \/ a # "arn:ex" /\ jobStatus[a] = "INITIALIZING" /\ st = "IN_PROGRESS"
           \/ a # "arn:ex" /\ jobStatus[a] = "IN_PROGRESS"
                /\ st \in {"COMPLETED", "FAILED", "STOPPING"}
           \/ a # "arn:ex" /\ jobStatus[a] = "STOPPING" /\ st = "STOPPED"
           \/ a = "arn:ex" /\ jobStatus[a] = "IN_PROGRESS"
                /\ st \in {"SUCCEEDED", "FAILED"}
        /\ jobStatus' = [jobStatus EXCEPT ![a] = st]
    /\ UNCHANGED <<pInput, stepState, pStarted, queue, pSignals>>
    /\ UNCHANGED notPipeVars

\* The event source mapping invokes lambda_handler with a batch of messages.
\* When the handler returns the batch is deleted; when it raises the batch
\* stays in the queue, invisible until the visibility timeout.
PipeInvoke ==
    /\ \E b \in Batches :
        LET recs == [i \in 1..Len(b) |->
                        [token |-> b[i], eoj_arn |-> StepArn(StepOfToken(b[i]))]]
            run == RunRecords(recs, jobStatus, {})
            inBatch == {b[i] : i \in 1..Len(b)}
            sent(m) == {c.CallbackToken : c \in {x \in run.signals : x.method = m}}
        IN  /\ pSignals' = pSignals \cup
                    {[method |-> c.method, token |-> c.CallbackToken] : c \in run.signals}
            /\ stepState' = [st \in StepNames |->
                    IF st \in CallbackSteps /\ stepState[st] = "executing"
                        THEN IF TokenOf(st) \in sent("send_pipeline_execution_step_success")
                                THEN "succeeded"
                             ELSE IF TokenOf(st) \in sent("send_pipeline_execution_step_failure")
                                THEN "failed"
                             ELSE stepState[st]
                        ELSE stepState[st]]
            /\ queue' = [t \in PipeTokens |->
                    IF t \in inBatch
                        THEN IF run.raised THEN "inflight" ELSE "deleted"
                        ELSE queue[t]]
    /\ UNCHANGED <<pInput, pStarted, jobStatus>>
    /\ UNCHANGED notPipeVars

\* VisibilityTimeout: a message the handler raised on becomes visible again.
VisibilityTimeout ==
    /\ \E t \in PipeTokens :
        /\ queue[t] = "inflight"
        /\ queue' = [queue EXCEPT ![t] = "visible"]
    /\ UNCHANGED <<pInput, stepState, pStarted, jobStatus, pSignals>>
    /\ UNCHANGED notPipeVars

pipeline ==
    \/ PipeLambdaStep
    \/ PipeCallbackStep
    \/ JobProgress
    \/ PipeInvoke
    \/ VisibilityTimeout

\* ======================================================== invoke_endpoint
\* for i in range(10)
Repeats == 10

\* Lines of the file as Python's iteration yields them: characters, then the
\* newline; the last line of a file may lack it.
FileLines == { <<"a", "\n">>, <<"b", "\n">>, <<"\n">>, <<"a">> }
Files ==
    { f \in UNION { [1..n -> FileLines] : n \in 0..MaxRows } :
        \A k \in 1..Len(f) : k < Len(f) => Last(f[k]) = "\n" }

\* row.rstrip("\n")
RECURSIVE RStrip(_)
RStripMut(s) == s
RStrip(s) ==
    IF s # <<>> /\ Last(s) = "\n" THEN RStrip(SubSeq(s, 1, Len(s) - 1)) ELSE s

\* except Exception as e: ...; if should_raise_exp: raise e
\* the position after a call raised
AfterErrorMut(flag) == IF flag THEN "row" ELSE "raised"
AfterError(flag) == IF flag THEN "raised" ELSE "row"

InvokeInit ==
    /\ iPc = "row"
    /\ file \in Files
    /\ should_raise_exp \in BOOLEAN
    /\ iRow = 1
    /\ payload = <<>>
    /\ iLoop = 0
    /\ invocations = <<>>

\* for row in f: payload = row.rstrip("\n")
InvokeNextRow ==
    /\ iPc = "row"
    /\ iRow <= Len(file)
    /\ payload' = RStrip(file[iRow])
    /\ iLoop' = 0
    /\ iPc' = "call"
    /\ UNCHANGED <<file, should_raise_exp, iRow, invocations>>
    /\ UNCHANGED notInvokeVars

\* sm_runtime.invoke_endpoint(..., Body=payload) answers
InvokeCallOk ==
    /\ iPc = "call"
    /\ iLoop < Repeats
    /\ invocations' = Append(invocations, [row |-> iRow, Body |-> payload, error |-> FALSE])
    /\ iLoop' = iLoop + 1
    /\ UNCHANGED <<iPc, file, should_raise_exp, iRow, payload>>
    /\ UNCHANGED notInvokeVars

\* sm_runtime.invoke_endpoint(..., Body=payload) raises: the except clause
InvokeCallError ==
    /\ iPc = "call"
    /\ iLoop < Repeats
    /\ invocations' = Append(invocations, [row |-> iRow, Body |-> payload, error |-> TRUE])
    /\ iPc' = AfterError(should_raise_exp)
    /\ iRow' = IF AfterError(should_raise_exp) = "row" THEN iRow + 1 ELSE iRow
    /\ UNCHANGED <<file, should_raise_exp, payload, iLoop>>
    /\ UNCHANGED notInvokeVars

\* the inner for loop is exhausted: next line of the file
InvokeRowDone ==
    /\ iPc = "call"
    /\ iLoop = Repeats
    /\ iRow' = iRow + 1
    /\ iPc' = "row"
    /\ UNCHANGED <<file, should_raise_exp, payload, iLoop, invocations>>
    /\ UNCHANGED notInvokeVars

\* the file is exhausted
InvokeReturn ==
    /\ iPc = "row"
    /\ iRow > Len(file)
    /\ iPc' = "returned"
    /\ UNCHANGED <<file, should_raise_exp, iRow, payload, iLoop, invocations>>
    /\ UNCHANGED notInvokeVars

invoke_endpoint ==
    \/ InvokeNextRow
    \/ InvokeCallOk
    \/ InvokeCallError
    \/ InvokeRowDone
    \/ InvokeReturn

\* ============================= the endpoint cells of the shadow notebook
\* The cells that create, use, promote and delete the endpoint, run once from
\* top to bottom.  SageMaker is the environment: a creation or an update it
\* accepted ends InService with the new configuration or Failed without it.
\* describe_endpoint is taken to answer.
ep_config_name == "Shadow-EpConfig"
promote_ep_config_name == "PromoteShadow-EpConfig"
production_variant_name == "production"
shadow_variant_name == "shadow"

Variant(variant, model) == [VariantName |-> variant, ModelName |-> model]

\* what an endpoint without a deployed configuration serves
Nothing == [ProductionVariants |-> {}, ShadowProductionVariants |-> {}]

\* the arguments of the first create_endpoint_config
EpConfig ==
    [ProductionVariants |-> {Variant(production_variant_name, "model_name")},
     ShadowProductionVariants |-> {Variant(shadow_variant_name, "model_name2")}]

\* the arguments of the second create_endpoint_config
PromoteEpConfig ==
    [ProductionVariants |-> {Variant(shadow_variant_name, "model_name2")},
     ShadowProductionVariants |-> {}]

WithConfig(configs, config_name, config) ==
    [n \in DOMAIN configs \cup {config_name} |->
        IF n = config_name THEN config ELSE configs[n]]

\* if status in ["InService", "Failed"]: break
WaitDone(st) == st \in {"InService", "Failed"}

ShadowInit ==
    /\ nPc = "create_endpoint_config"
    /\ epConfigs = <<>>
    /\ endpointStatus = "none"
    /\ served = Nothing
    /\ pendingConfig = ""
    /\ wStatus = ""
    /\ described = <<>>
    /\ cellsRun = <<>>

\* a cell that only reads the endpoint
RunCell(cell, next) ==
    /\ nPc = cell
    /\ cellsRun' = Append(cellsRun,
                          [cell |-> cell, status |-> endpointStatus,
                           served |-> served])
    /\ nPc' = next
    /\ UNCHANGED <<epConfigs, endpointStatus, served, pendingConfig, wStatus,
                   described>>

\* one iteration of the while True of wait_for_endpoint_in_service
WaitIteration(at, next) ==
    /\ nPc = at
    /\ ~WaitDone(endpointStatus) => Len(described) < MaxDescribes
    /\ wStatus' = endpointStatus
    /\ described' = Append(described, endpointStatus)
    /\ nPc' = IF WaitDone(endpointStatus) THEN next ELSE at
    /\ UNCHANGED <<epConfigs, endpointStatus, served, pendingConfig, cellsRun>>

CreateEndpointConfig ==
    /\ nPc = "create_endpoint_config"
    /\ epConfigs' = WithConfig(epConfigs, ep_config_name, EpConfig)
    /\ nPc' = "create_endpoint"
    /\ UNCHANGED <<endpointStatus, served, pendingConfig, wStatus, described,
                   cellsRun>>
    /\ UNCHANGED notShadowVars

CreateEndpoint ==
    /\ nPc = "create_endpoint"
    /\ endpointStatus' = "Creating"
    /\ pendingConfig' = ep_config_name
    /\ described' = <<>>
    /\ nPc' = "wait_create"
    /\ UNCHANGED <<epConfigs, served, wStatus, cellsRun>>
    /\ UNCHANGED notShadowVars

\* SageMaker settles the creation or the update it is working on
EndpointProgress ==
    /\ endpointStatus \in {"Creating", "Updating"}
    /\ \/ /\ endpointStatus' = "InService"
          /\ served' = epConfigs[pendingConfig]
       \/ /\ endpointStatus' = "Failed"
          /\ served' = served
    /\ UNCHANGED <<nPc, epConfigs, pendingConfig, wStatus, described, cellsRun>>
    /\ UNCHANGED notShadowVars

WaitForCreate ==
    /\ WaitIteration("wait_create", "describe_create")
    /\ UNCHANGED notShadowVars

DescribeAfterCreate ==
    /\ RunCell("describe_create", "invoke_endpoint")
    /\ UNCHANGED notShadowVars

InvokeCell ==
    /\ RunCell("invoke_endpoint", "metrics_invocations")
    /\ UNCHANGED notShadowVars

\* the four cells that plot the CloudWatch metrics of the two variants
MetricCellNames ==
    {"metrics_invocations", "metrics_model_latency",
     "metrics_overhead_latency", "metrics_errors"}

InvocationsCell ==
    /\ RunCell("metrics_invocations", "metrics_model_latency")
    /\ UNCHANGED notShadowVars

ModelLatencyCell ==
    /\ RunCell("metrics_model_latency", "metrics_overhead_latency")
    /\ UNCHANGED notShadowVars

OverheadLatencyCell ==
    /\ RunCell("metrics_overhead_latency", "metrics_errors")
    /\ UNCHANGED notShadowVars

InvocationErrorsCell ==
    /\ RunCell("metrics_errors", "create_promote_config")
    /\ UNCHANGED notShadowVars

CreatePromoteConfig ==
    /\ nPc = "create_promote_config"
    /\ epConfigs' = WithConfig(epConfigs, promote_ep_config_name, PromoteEpConfig)
    /\ nPc' = "update_endpoint"
    /\ UNCHANGED <<endpointStatus, served, pendingConfig, wStatus, described,
                   cellsRun>>
    /\ UNCHANGED notShadowVars

\* SageMaker accepts the update
UpdateEndpoint ==
    /\ nPc = "update_endpoint"
    /\ endpointStatus' = "Updating"
    /\ pendingConfig' = promote_ep_config_name
    /\ described' = <<>>
    /\ nPc' = "wait_update"
    /\ UNCHANGED <<epConfigs, served, wStatus, cellsRun>>
    /\ UNCHANGED notShadowVars

\* SageMaker refuses to update an endpoint that is not InService: the call
\* raises and the cell stops
UpdateEndpointRefused ==
    /\ nPc = "update_endpoint"
    /\ endpointStatus # "InService"
    /\ nPc' = "raised"
    /\ UNCHANGED <<epConfigs, endpointStatus, served, pendingConfig, wStatus,
                   described, cellsRun>>
    /\ UNCHANGED notShadowVars

WaitForUpdate ==
    /\ WaitIteration("wait_update", "describe_update")
    /\ UNCHANGED notShadowVars

DescribeAfterUpdate ==
    /\ RunCell("describe_update", "cleanup")
    /\ UNCHANGED notShadowVars

Cleanup ==
    /\ nPc = "cleanup"
    /\ endpointStatus' = "none"
    /\ served' = Nothing
    /\ epConfigs' = <<>>
    /\ nPc' = "done"
    /\ UNCHANGED <<pendingConfig, wStatus, described, cellsRun>>
    /\ UNCHANGED notShadowVars

shadow_notebook ==
    \/ CreateEndpointConfig
    \/ CreateEndpoint
    \/ EndpointProgress
    \/ WaitForCreate
    \/ DescribeAfterCreate
    \/ InvokeCell
    \/ InvocationsCell
    \/ ModelLatencyCell
    \/ OverheadLatencyCell
    \/ InvocationErrorsCell
    \/ CreatePromoteConfig
    \/ UpdateEndpoint
    \/ UpdateEndpointRefused
    \/ WaitForUpdate
    \/ DescribeAfterUpdate
    \/ Cleanup

\* ========================================================= specifications
StartIdle ==
    /\ sPc = "idle"
    /\ eoj_name = ""
    /\ eoj_arn = ""
    /\ gs_get_eoj_resp = ""
    /\ startCalls = <<>>
    /\ polled = <<>>
    /\ sRet = ""

LambdaIdle ==
    /\ event = [keys |-> {}, input |-> <<>>, records |-> <<>>]
    /\ lPc = "idle"
    /\ lIdx = 1
    /\ response = Unbound
    /\ gsCalls = <<>>
    /\ signals = <<>>
    /\ observed = <<>>
    /\ lResult = NoResult

LoopIdle ==
    /\ loopPc = "idle"
    /\ j = 1
    /\ eoj_status = [i \in EojIdx |-> ""]
    /\ exportCalls = [i \in EojIdx |-> 0]
    /\ exportedPoll = {}
    /\ loopErr = ""
    /\ lastPoll = NoPoll

PipeIdle ==
    /\ pInput = <<>>
    /\ stepState = [st \in StepNames |-> "idle"]
    /\ pStarted = <<>>
    /\ jobStatus = [a \in PipeArns |-> "none"]
    /\ queue = [t \in PipeTokens |-> "absent"]
    /\ pSignals = {}

InvokeIdle ==
    /\ iPc = "idle"
    /\ file = <<>>
    /\ should_raise_exp = FALSE
    /\ iRow = 1
    /\ payload = <<>>
    /\ iLoop = 0
    /\ invocations = <<>>

ShadowIdle ==
    /\ nPc = "idle"
    /\ epConfigs = <<>>
    /\ endpointStatus = "none"
    /\ served = Nothing
    /\ pendingConfig = ""
    /\ wStatus = ""
    /\ described = <<>>
    /\ cellsRun = <<>>

\* one call of start_earth_observation_job
InitStart == StartInit /\ LambdaIdle /\ LoopIdle /\ PipeIdle /\ InvokeIdle /\ ShadowIdle
NextStart == start_earth_observation_job
SpecStart == InitStart /\ [][NextStart]_vars

\* one invocation of lambda_handler
InitLambda == LambdaInit /\ StartIdle /\ LoopIdle /\ PipeIdle /\ InvokeIdle /\ ShadowIdle
NextLambda == lambda_handler
SpecLambda == InitLambda /\ [][NextLambda]_vars

\* one run of the status/export cell
InitLoop == LoopInit /\ StartIdle /\ LambdaIdle /\ PipeIdle /\ InvokeIdle /\ ShadowIdle
NextLoop == export_loop
SpecLoop == InitLoop /\ [][NextLoop]_vars

\* one execution of the pipeline, with the queue and the function
InitPipe == PipeInit /\ StartIdle /\ LambdaIdle /\ LoopIdle /\ InvokeIdle /\ ShadowIdle
NextPipe == pipeline
SpecPipe == InitPipe /\ [][NextPipe]_vars

\* the same under the scheduling the services give: a ready step is started,
\* the service works on every job until it settles, a visible message is
\* delivered, and a message raised on becomes visible again
FairPipe ==
    /\ SpecPipe
    /\ WF_vars(PipeLambdaStep)
    /\ WF_vars(PipeCallbackStep)
    /\ WF_vars(JobProgress)
    /\ WF_vars(PipeInvoke)
    /\ WF_vars(VisibilityTimeout)

\* one call of invoke_endpoint
InitInvoke == InvokeInit /\ StartIdle /\ LambdaIdle /\ LoopIdle /\ PipeIdle /\ ShadowIdle
NextInvoke == invoke_endpoint
SpecInvoke == InitInvoke /\ [][NextInvoke]_vars

\* one run of the endpoint cells of the shadow-variant notebook
InitShadow ==
    /\ ShadowInit /\ StartIdle /\ LambdaIdle /\ LoopIdle /\ PipeIdle
    /\ InvokeIdle
NextShadow == shadow_notebook
SpecShadow == InitShadow /\ [][NextShadow]_vars

\* ================================================================= claims
Finished == lPc \in {"returned", "raised"}
CallsOf(op) == Cardinality({i \in 1..Len(gsCalls) : gsCalls[i].op = op})
SignalSent(method, token) ==
    \E k \in 1..Len(signals) :
        signals[k].method = method /\ signals[k].CallbackToken = token

\* C1: start_earth_observation_job makes exactly one start call, polls only
\* after it and at least once before returning, and returns the ARN the start
\* call answered only after a poll answered a Status other than IN_PROGRESS;
\* while every poll answered IN_PROGRESS it has not returned.
C1_StartPollReturn ==
    /\ Len(startCalls) <= 1
    /\ (Len(polled) > 0 => Len(startCalls) = 1)
    /\ (sPc = "returned" =>
            /\ Len(startCalls) = 1
            /\ startCalls[1].Name = eoj_name
            /\ Len(polled) >= 1
            /\ Last(polled) # "IN_PROGRESS"
            /\ sRet = startCalls[1].Arn)
    /\ ((\A i \in 1..Len(polled) : polled[i] = "IN_PROGRESS") => sPc # "returned")

\* C1 witness: a return after an IN_PROGRESS poll followed by a COMPLETED one.
C1_Witness ==
    /\ sPc = "returned"
    /\ polled = <<"IN_PROGRESS", "COMPLETED">>
    /\ sRet = eoj_arn

\* C2: the helper returns only when the last polled Status is a terminal one
\* (COMPLETED, FAILED or STOPPED).
TerminalStatuses == {"COMPLETED", "FAILED", "STOPPED"}
C2_ReturnsOnlyOnTerminal ==
    sPc = "returned" => gs_get_eoj_resp \in TerminalStatuses

\* C3: the branch is chosen by the fixed priority eoj_name, eoj_output_config,
\* Records, and only the chosen branch acts: a start event makes one start call
\* and nothing else, an export event one export call and nothing else, a
\* Records event only status checks and callback signals.
C3_OneBranchByPriority ==
    LET starts == CallsOf("start_earth_observation_job")
        exports == CallsOf("export_earth_observation_job")
        gets == CallsOf("get_earth_observation_job")
        isStart == "eoj_name" \in event.keys
        isExport == ~isStart /\ "eoj_output_config" \in event.keys
        isRecords == ~isStart /\ ~isExport /\ "Records" \in event.keys
    IN  /\ starts + exports <= 1
        /\ (isStart => exports = 0 /\ gets = 0 /\ signals = <<>>)
        /\ (isExport => starts = 0 /\ gets = 0 /\ signals = <<>>)
        /\ (isRecords => starts = 0 /\ exports = 0)
        /\ (~isStart /\ ~isExport /\ ~isRecords =>
                starts = 0 /\ exports = 0 /\ gets = 0 /\ signals = <<>>)
        /\ (Finished =>
                /\ (isStart /\ InputConfig(event.input).form # "unbound" => starts = 1)
                /\ (isExport => exports = 1)
                /\ (isRecords /\ event.records # <<>> => gets >= 1))

\* C3 witness: an event with all three keys has been handled by starting a job.
C3_Witness ==
    /\ lPc = "returned"
    /\ event.keys = EventKeys
    /\ event.records # <<>>
    /\ CallsOf("start_earth_observation_job") = 1

\* C4: every record polled as COMPLETED got a step-success signal with its own
\* token and the output parameter eoj_status = COMPLETED.
C4_CompletedResumes ==
    \A i \in 1..Len(observed) :
        observed[i] = "COMPLETED" =>
            \E k \in 1..Len(signals) :
                signals[k] = [method |-> "send_pipeline_execution_step_success",
                              CallbackToken |-> event.records[i].token,
                              Name |-> "eoj_status", Value |-> "COMPLETED"]

\* C4 witness: the second record of a batch was polled as COMPLETED.
C4_Witness ==
    /\ lPc = "returned"
    /\ Len(observed) = 2
    /\ observed[2] = "COMPLETED"
    /\ SignalSent("send_pipeline_execution_step_success", event.records[2].token)

\* C5: every record polled as SUCCEEDED got a step-success signal with its
\* token and export_eoj_status = SUCCEEDED, and the handler does not raise.
C5_SucceededResumes ==
    \A i \in 1..Len(observed) :
        observed[i] = "SUCCEEDED" =>
            /\ \E k \in 1..Len(signals) :
                /\ signals[k].CallbackToken = event.records[i].token
                /\ signals[k].Name = "export_eoj_status"
                /\ signals[k].Value = "SUCCEEDED"
            /\ lPc # "raised"

\* C6 as stated: every record polled as FAILED got a step-failure signal with
\* its token and no success signal, and the handler returns normally.
C6_FailedReturnsNormally ==
    \A i \in 1..Len(observed) :
        observed[i] = "FAILED" =>
            /\ SignalSent("send_pipeline_execution_step_failure", event.records[i].token)
            /\ ~SignalSent("send_pipeline_execution_step_success", event.records[i].token)
            /\ lPc # "raised"

\* C6 amended: every record polled as FAILED got a step-failure signal with its
\* token and no success signal, and the handler does not raise for that
\* record: it raises only when a later record of the same event is polled with
\* a Status other than COMPLETED or FAILED.
C6_FailedNoRaiseForRecord ==
    \A i \in 1..Len(observed) :
        observed[i] = "FAILED" =>
            /\ SignalSent("send_pipeline_execution_step_failure", event.records[i].token)
            /\ ~SignalSent("send_pipeline_execution_step_success", event.records[i].token)
            /\ (lPc = "raised" =>
                    \E k \in (i + 1)..Len(observed) :
                        observed[k] \notin {"COMPLETED", "FAILED"})
            /\ (Finished /\ (\A k \in 1..Len(observed) :
                                observed[k] \in {"COMPLETED", "FAILED"})
                    => lResult = Returned(event.records[Len(observed)].eoj_arn))

\* C6 witness: a batch whose records were both polled as FAILED was returned from.
C6_Witness ==
    /\ lPc = "returned"
    /\ observed = <<"FAILED", "FAILED">>
    /\ Len(signals) = 2

\* C7: a record polled with a Status other than COMPLETED, SUCCEEDED and FAILED
\* gets no signal for its token and the handler ends by raising the
\* "still running" exception.
C7_RunningRaises ==
    \A i \in 1..Len(observed) :
        observed[i] \notin {"COMPLETED", "SUCCEEDED", "FAILED"} =>
            /\ \A k \in 1..Len(signals) :
                signals[k].CallbackToken # event.records[i].token
            /\ lPc = "raised"
            /\ lResult = Raised("EOJ or export still running...")

\* C7 witness: the second record was polled as STOPPED after a signalled first.
C7_Witness ==
    /\ lPc = "raised"
    /\ observed = <<"COMPLETED", "STOPPED">>
    /\ Len(signals) = 1

\* C10: the status/export loop ends normally only with all three EOJs marked
\* "Exported", each after a poll that answered Status COMPLETED together with
\* ExportStatus SUCCEEDED.
C10_DoneOnlyWhenAllExported ==
    loopPc = "done" =>
        \A i \in EojIdx : eoj_status[i] = "Exported" /\ i \in exportedPoll

\* C10 witness: the loop ended normally after at least one export was requested.
C10_Witness ==
    /\ loopPc = "done"
    /\ \E i \in EojIdx : exportCalls[i] > 0

Signalled(t) ==
    \E m \in {"send_pipeline_execution_step_success",
              "send_pipeline_execution_step_failure"} :
        [method |-> m, token |-> t] \in pSignals

\* C8: every callback token placed on the queue eventually receives a success
\* or a failure signal.
C8_EveryTokenSignalled ==
    \A t \in PipeTokens : (queue[t] = "visible") ~> Signalled(t)

\* C9: the steps start in the order of the pipeline definition; the stacking
\* EOJ exists only after the cloud-removal callback received a success signal,
\* and the export only after the stacking callback received one.
C9_StepsInOrder ==
    /\ Len(pStarted) <= Len(PipelineSteps)
    /\ \A i \in 1..Len(pStarted) : pStarted[i] = PipelineSteps[i]
    /\ (jobStatus["arn:s"] # "none" =>
            [method |-> "send_pipeline_execution_step_success", token |-> "token:cr"]
                \in pSignals)
    /\ (jobStatus["arn:ex"] # "none" =>
            [method |-> "send_pipeline_execution_step_success", token |-> "token:s"]
                \in pSignals)

\* C9 witness: all six steps were started and the last one succeeded.
C9_Witness ==
    /\ pStarted = PipelineSteps
    /\ stepState["ExportCallbackStep"] = "succeeded"

\* C14: in the status/export loop an answer whose Status is neither COMPLETED
\* nor IN_PROGRESS raises "Error with the EOJ", and a COMPLETED answer whose
\* ExportStatus is present and neither IN_PROGRESS nor SUCCEEDED raises "Error
\* exporting"; the loop stops at that job: nothing is polled or exported after.
C14_ErrorsAbortLoop ==
    /\ [](lastPoll # NoPoll /\ lastPoll.Status \notin {"COMPLETED", "IN_PROGRESS"}
            => loopPc = "raised" /\ loopErr = "Error with the EOJ")
    /\ [](lastPoll.Status = "COMPLETED"
            /\ lastPoll.ExportStatus \notin {"absent", "IN_PROGRESS", "SUCCEEDED"}
            => loopPc = "raised" /\ loopErr = "Error exporting")
    /\ [](loopPc = "raised" => j = lastPoll.job)
    /\ [][loopPc = "raised" => UNCHANGED loopVars]_vars

\* C14 witness: the export of the second EOJ failed after the first EOJ was
\* handled, and the loop was aborted there.
C14_Witness ==
    /\ loopPc = "raised"
    /\ loopErr = "Error exporting"
    /\ lastPoll = [job |-> 2, Status |-> "COMPLETED", ExportStatus |-> "FAILED"]
    /\ exportCalls[1] > 0

\* C16: the InputConfig of the start call is the literal-evaluated
\* eoj_input_config when the text contains "RasterDataCollectionQuery", and
\* otherwise {"PreviousEarthObservationJobArn": text} when it contains "arn";
\* a raster query that also contains "arn" is passed in the raster form.
C16_InputConfigForm ==
    \A i \in 1..Len(gsCalls) :
        gsCalls[i].op = "start_earth_observation_job" =>
            /\ (Contains("RasterDataCollectionQuery", event.input) =>
                    gsCalls[i].arg = [form |-> "RasterDataCollectionQuery",
                                      value |-> LiteralEval(event.input)])
            /\ (~Contains("RasterDataCollectionQuery", event.input)
                    /\ Contains("arn", event.input) =>
                    gsCalls[i].arg = [form |-> "PreviousEarthObservationJobArn",
                                      value |-> event.input])

\* C16 witness: a job was started from a raster query that contains "arn".
C16_Witness ==
    /\ lPc = "returned"
    /\ event.input = <<"RasterDataCollectionQuery", "arn">>
    /\ CallsOf("start_earth_observation_job") = 1
    /\ gsCalls[1].arg.form = "RasterDataCollectionQuery"

\* C17: a start event whose eoj_input_config contains neither
\* "RasterDataCollectionQuery" nor "arn" makes no start call, never reaches the
\* return of statusCode 200, and ends by raising.
C17_NeitherFormRaises ==
    ("eoj_name" \in event.keys
        /\ ~Contains("RasterDataCollectionQuery", event.input)
        /\ ~Contains("arn", event.input)) =>
            /\ CallsOf("start_earth_observation_job") = 0
            /\ lPc \in {"entry", "raised"}
            /\ lResult.statusCode # 200
            /\ (lPc = "raised" => lResult = Raised("UnboundLocalError"))

\* C17 witness: the handler raised on a start event with the empty default text.
C17_Witness ==
    /\ lPc = "raised"
    /\ "eoj_name" \in event.keys
    /\ event.input = <<>>
    /\ lResult.kind = "raised"

CallsOfRow(r) == {k \in 1..Len(invocations) : invocations[k].row = r}
IEnded == iPc \in {"returned", "raised"}
\* a line without its newline
Stripped(line) ==
    IF line # <<>> /\ Last(line) = "\n" THEN SubSeq(line, 1, Len(line) - 1) ELSE line
BodiesInFileOrder ==
    /\ \A k \in 1..Len(invocations) :
        invocations[k].Body = Stripped(file[invocations[k].row])
    /\ \A k, m \in 1..Len(invocations) :
        k < m => invocations[k].row <= invocations[m].row

\* C13 as stated: when invoke_endpoint ends, every line of the file got exactly
\* 10 calls with the line, newline stripped, as body, in file order.
C13_TenCallsPerRow ==
    IEnded =>
        /\ BodiesInFileOrder
        /\ \A r \in 1..Len(file) : Cardinality(CallsOfRow(r)) = Repeats

\* C13 amended: the calls carry the line, newline stripped, in file order; a
\* line gets at most 10 calls, exactly 10 when invoke_endpoint went past it and
\* none of its calls raised, and a call that raised is the last one of its line.
C13_TenCallsUnlessError ==
    /\ BodiesInFileOrder
    /\ \A r \in 1..Len(file) :
        /\ Cardinality(CallsOfRow(r)) <= Repeats
        /\ \A k \in CallsOfRow(r) :
            invocations[k].error => \A m \in CallsOfRow(r) : m <= k
        /\ ((r < iRow \/ iPc = "returned")
                /\ (\A k \in CallsOfRow(r) : ~invocations[k].error)
                => Cardinality(CallsOfRow(r)) = Repeats)

\* C13 witness: a two-line file was sent in full, 10 calls per line, and the
\* first line lost its newline.
C13_Witness ==
    /\ iPc = "returned"
    /\ file = << <<"a", "\n">>, <<"b", "\n">> >>
    /\ Len(invocations) = 2 * Repeats
    /\ invocations[1].Body = <<"a">>
    /\ \A k \in 1..Len(invocations) : ~invocations[k].error

\* C15: with should_raise_exp=False no invocation error leaves
\* invoke_endpoint and every line of the file is still attempted; with
\* should_raise_exp=True the first error is re-raised and is the last call made.
C15_ErrorHandling ==
    /\ (~should_raise_exp =>
            /\ iPc # "raised"
            /\ (iPc = "returned" => \A r \in 1..Len(file) : CallsOfRow(r) # {}))
    /\ (should_raise_exp =>
            /\ \A k \in 1..Len(invocations) :
                invocations[k].error => k = Len(invocations) /\ iPc = "raised"
            /\ (iPc = "raised" => invocations # <<>> /\ Last(invocations).error))

\* C15 witness: without the flag, a call for the first line raised and the
\* second line was sent nevertheless.
C15_Witness ==
    /\ iPc = "returned"
    /\ ~should_raise_exp
    /\ Len(file) = 2
    /\ \E k \in CallsOfRow(1) : invocations[k].error
    /\ Cardinality(CallsOfRow(2)) = Repeats

\* the wait of the notebook has just returned
WaitReturned == nPc \in {"describe_create", "describe_update"}

\* C11: when wait_for_endpoint_in_service returns, the endpoint is InService,
\* and invoke_endpoint, the metric cells and the describe after the promotion
\* have only run against an InService endpoint.
C11_WaitReturnsInService ==
    /\ WaitReturned => wStatus = "InService" /\ endpointStatus = "InService"
    /\ \A k \in 1..Len(cellsRun) :
          cellsRun[k].cell \in {"invoke_endpoint", "describe_update"}
                                    \cup MetricCellNames
              => cellsRun[k].status = "InService"

\* what C11 leaves true of the code: the wait returns on InService or Failed
C11_WaitReturnsSettled == WaitReturned => wStatus \in {"InService", "Failed"}

\* C12: once the promotion cells (promote configuration, update_endpoint,
\* wait) have run, the endpoint serves model_name2 under the variant "shadow"
\* as its only production variant and has no shadow variant.
C12_ShadowPromoted ==
    nPc \in {"describe_update", "cleanup"}
        => /\ served.ProductionVariants
                = {[VariantName |-> "shadow", ModelName |-> "model_name2"]}
           /\ served.ShadowProductionVariants = {}

\* the promotion does what C12 says whenever the wait returned on InService
C12_PromotedWhenInService ==
    nPc \in {"describe_update", "cleanup"} /\ wStatus = "InService"
        => served = PromoteEpConfig
====
